---- MODULE Spec2Model ----
(***************************************************************************)
(* Inventory service (logi-core/services/inventory-service/main.py):       *)
(* the in-memory Level Store (INVENTORY_LEVELS), the Ledger                *)
(* (STOCK_MOVEMENTS), the Warehouse registry (WAREHOUSES) and the          *)
(* endpoints that read and write them.                                     *)
(*                                                                         *)
(* Every endpoint is an `async def` coroutine without a single `await` in  *)
(* its body, so the event loop runs each handler from its first to its     *)
(* last statement without yielding: one handler call is one atomic step.   *)
(* Request validation (pydantic, from the StockMovement class) runs before *)
(* the handler body and answers 422 without entering it.                   *)
(***************************************************************************)
EXTENDS Integers, Sequences, FiniteSets, TLC

VARIABLES WAREHOUSES, INVENTORY_LEVELS, STOCK_MOVEMENTS, nextUuid,
          request, resp, calls, pc

vars == <<WAREHOUSES, INVENTORY_LEVELS, STOCK_MOVEMENTS, nextUuid,
          request, resp, calls, pc>>

(* ---------------------------- bounds ----------------------------------- *)
\* longest Ledger explored by Spec
MaxMovements == 2
\* number of concurrent callers in SpecConc
NumClients == 3

(* ---------------------------- values ----------------------------------- *)
\* Python None for Optional[str] fields
None == "<None>"
\* Python None for Optional[int] fields (a set value n is <<n>>)
NoneInt == << >>

\* Literal['inbound','outbound','transfer','adjustment','return']
MovementTypes == {"inbound", "outbound", "transfer", "adjustment", "return"}

\* inputs of the movement endpoint
ItemIds == {"i1"}
WarehouseIds == {"w1", "w2"}
SubmittedIds == {None, "", "m1"}
Quantities == {-1, 0, 1, 2}

\* bodies whose movementType is one of the Literal's values: every kind with
\* every quantity and no id, and every submitted id with a unit movement
TypedRequests ==
  [id : {None}, itemId : ItemIds, warehouseId : WarehouseIds,
   movementType : MovementTypes, quantity : Quantities]
  \cup
  [id : SubmittedIds, itemId : ItemIds, warehouseId : WarehouseIds,
   movementType : {"inbound", "outbound"}, quantity : {1}]
\* bodies whose movementType is not
UntypedRequests ==
  [id : {None}, itemId : ItemIds, warehouseId : WarehouseIds,
   movementType : {"bogus"}, quantity : {0, 1}]
Requests == TypedRequests \cup UntypedRequests

\* inputs of the concurrent callers
ConcRequests ==
  [id : {None}, itemId : ItemIds, warehouseId : WarehouseIds,
   movementType : {"inbound", "outbound", "bogus"}, quantity : {1}]

Clients == 1..NumClients
NoCall == [id |-> None, itemId |-> "", warehouseId |-> "",
           movementType |-> "", quantity |-> 0]

(* ---------------------------- helpers ---------------------------------- *)
\* str(uuid4()): a value no earlier call produced and no caller submits
Uuid(n) == "uuid-" \o ToString(n)

\* `not m.id`: None and the empty string are both falsy
Falsy(s) == s = None \/ s = ""

\* pydantic validation of the request body: movementType must be one of
\* the Literal's values; quantity is a plain int, any value passes
ValidMovementAny(m) == TRUE
ValidMovementKnown(m) ==
  /\ m.movementType \in MovementTypes
  /\ \E k \in 1..Len(WAREHOUSES) : WAREHOUSES[k].id = m.warehouseId
ValidMovementNoReturn(m) ==
  m.movementType \in {"inbound", "outbound", "transfer", "adjustment"}
ValidMovement(m) == m.movementType \in MovementTypes

\* next((l for l in INVENTORY_LEVELS if ...), None): index of the first
\* level with the movement's itemId and warehouseId, 0 for None
FindLevelTypo(levels, m) ==
  LET hits == {k \in 1..Len(levels) :
                 levels[k].itemId = m.itemId /\ levels[k].warehouseId = m.itemId}
  IN IF hits = {} THEN 0 ELSE CHOOSE k \in hits : \A j \in hits : k <= j
FindLevel(levels, m) ==
  LET hits == {k \in 1..Len(levels) :
                 levels[k].itemId = m.itemId /\ levels[k].warehouseId = m.warehouseId}
  IN IF hits = {} THEN 0 ELSE CHOOSE k \in hits : \A j \in hits : k <= j

\* InventoryLevel(id=..., itemId=..., warehouseId=..., quantity=0, reservedQuantity=0)
NewLevelReserved(id, m) ==
  [id |-> id, itemId |-> m.itemId, warehouseId |-> m.warehouseId,
   quantity |-> 0, reservedQuantity |-> m.quantity, reorderPoint |-> NoneInt,
   reorderQuantity |-> NoneInt, locationCode |-> None]
NewLevelReorderZero(id, m) ==
  [id |-> id, itemId |-> m.itemId, warehouseId |-> m.warehouseId,
   quantity |-> 0, reservedQuantity |-> 0, reorderPoint |-> <<0>>,
   reorderQuantity |-> NoneInt, locationCode |-> None]
NewLevel(id, m) ==
  [id |-> id, itemId |-> m.itemId, warehouseId |-> m.warehouseId,
   quantity |-> 0, reservedQuantity |-> 0, reorderPoint |-> NoneInt,
   reorderQuantity |-> NoneInt, locationCode |-> None]

\* adj = m.quantity if m.movementType in ("inbound", "return") else -m.quantity
AdjAdjustmentUp(m) ==
  IF m.movementType \in {"inbound", "return", "adjustment"} THEN m.quantity ELSE -m.quantity
Adj(m) == IF m.movementType \in {"inbound", "return"} THEN m.quantity ELSE -m.quantity

\* max(0, x)
Max0None(x) == x
Max0(x) == IF 0 >= x THEN 0 ELSE x

\* max(0, level.quantity + adj)
NewQuantityStale(level, m) == Max0(0 + Adj(m))
NewQuantity(level, m) == Max0(level.quantity + Adj(m))

\* level.quantity = ... on the level object found or just appended
SetQuantityFirst(levels, k, q) == [levels EXCEPT ![1].quantity = q]
SetQuantityDeferred(levels, k, q) == levels
SetQuantityFresh(levels, k, q) ==
  [levels EXCEPT ![k] = [NewLevel(levels[k].id, levels[k]) EXCEPT !.quantity = q]]
SetQuantity(levels, k, q) == [levels EXCEPT ![k].quantity = q]

\* STOCK_MOVEMENTS.append(m)
AppendMovementFront(ledger, m) == <<m>> \o ledger
AppendMovement(ledger, m) == Append(ledger, m)

(* ---------------------------- endpoint --------------------------------- *)
\* request line of the call being answered: method, route and the
\* warehouseId query parameter
RequestLine(path, warehouseId) == [path |-> path, warehouseId |-> warehouseId]
NoRequest == RequestLine("", None)

\* POST /inventory/movements with a body that passes validation
record_stock_movement(m) ==
  /\ request' = RequestLine("POST /inventory/movements", None)
  /\ ValidMovement(m)
  /\ LET assign == Falsy(m.id)
         committed == IF assign THEN [m EXCEPT !.id = Uuid(nextUuid)] ELSE m
         u1 == IF assign THEN nextUuid + 1 ELSE nextUuid
         found == FindLevel(INVENTORY_LEVELS, m)
         levels1 == IF found = 0
                      THEN Append(INVENTORY_LEVELS, NewLevel(Uuid(u1), m))
                      ELSE INVENTORY_LEVELS
         u2 == IF found = 0 THEN u1 + 1 ELSE u1
         k == IF found = 0 THEN Len(levels1) ELSE found
     IN /\ INVENTORY_LEVELS' = SetQuantity(levels1, k, NewQuantity(levels1[k], m))
        /\ STOCK_MOVEMENTS' = AppendMovement(STOCK_MOVEMENTS, committed)
        /\ nextUuid' = u2
        /\ resp' = [status |-> 200, body |-> committed]
        /\ UNCHANGED WAREHOUSES

\* POST /inventory/movements with a body that fails validation: 422, the
\* handler body is not entered
RejectMovement(m) ==
  /\ request' = RequestLine("POST /inventory/movements", None)
  /\ ~ValidMovement(m)
  /\ resp' = [status |-> 422,
              body |-> [loc |-> "movementType", input |-> m.movementType]]
  /\ UNCHANGED <<WAREHOUSES, INVENTORY_LEVELS, STOCK_MOVEMENTS, nextUuid>>

\* `if warehouseId:` the filter is applied for a non-empty string only;
\* [l for l in levels if l.warehouseId == warehouseId]
FilterWarehouse(levels, warehouseId) ==
  IF ~Falsy(warehouseId)
    THEN SelectSeq(levels, LAMBDA l : l.warehouseId = warehouseId)
    ELSE levels

\* (l.reorderPoint or 0)
OrZero(reorderPoint) ==
  IF reorderPoint = NoneInt \/ reorderPoint[1] = 0 THEN 0 ELSE reorderPoint[1]

\* l.reorderPoint is not None and l.quantity <= (l.reorderPoint or 0)
IsLowStock(l) ==
  l.reorderPoint # NoneInt /\ l.quantity <= OrZero(l.reorderPoint)

\* the list get_low_stock returns
LowStock(levels, warehouseId) ==
  SelectSeq(FilterWarehouse(levels, warehouseId), IsLowStock)

\* GET /inventory/levels
get_inventory_levels_reversing(warehouseId) ==
  /\ request' = RequestLine("GET /inventory/levels", warehouseId)
  /\ resp' = [status |-> 200, body |-> FilterWarehouse(INVENTORY_LEVELS, warehouseId)]
  /\ INVENTORY_LEVELS' = [k \in 1..Len(INVENTORY_LEVELS) |->
                            INVENTORY_LEVELS[Len(INVENTORY_LEVELS) + 1 - k]]
  /\ UNCHANGED <<WAREHOUSES, STOCK_MOVEMENTS, nextUuid>>
get_inventory_levels(warehouseId) ==
  /\ request' = RequestLine("GET /inventory/levels", warehouseId)
  /\ resp' = [status |-> 200, body |-> FilterWarehouse(INVENTORY_LEVELS, warehouseId)]
  /\ UNCHANGED <<WAREHOUSES, INVENTORY_LEVELS, STOCK_MOVEMENTS, nextUuid>>

\* GET /inventory/low-stock
get_low_stock(warehouseId) ==
  /\ request' = RequestLine("GET /inventory/low-stock", warehouseId)
  /\ resp' = [status |-> 200, body |-> LowStock(INVENTORY_LEVELS, warehouseId)]
  /\ UNCHANGED <<WAREHOUSES, INVENTORY_LEVELS, STOCK_MOVEMENTS, nextUuid>>

\* _demo_wh_id = str(uuid4()) at import: an opaque id that callers learn
\* from GET /warehouses; it is the one warehouse id of WarehouseIds that the
\* registry knows
demo_wh_id == "w1"

\* the seeded Warehouse (id, name and isActive of it)
DemoWarehouse ==
  [id |-> demo_wh_id, name |-> "Main Distribution Center", isActive |-> TRUE]

\* Python None for Optional[bool] fields (a set value b is <<b>>)
NoneBool == << >>

\* POST /warehouses: the registry is a dict keyed by a fresh uuid, so the
\* new entry comes last in iteration order
create_warehouse(req) ==
  /\ request' = RequestLine("POST /warehouses", None)
  /\ LET wh == [id |-> Uuid(nextUuid), name |-> req.name,
                isActive |-> IF req.isActive # NoneBool THEN req.isActive[1] ELSE TRUE]
     IN /\ WAREHOUSES' = Append(WAREHOUSES, wh)
        /\ resp' = [status |-> 200, body |-> wh]
  /\ nextUuid' = nextUuid + 1
  /\ UNCHANGED <<INVENTORY_LEVELS, STOCK_MOVEMENTS>>

\* GET /warehouses: [w for w in WAREHOUSES.values() if w.isActive]
get_warehouses ==
  /\ request' = RequestLine("GET /warehouses", None)
  /\ resp' = [status |-> 200, body |-> SelectSeq(WAREHOUSES, LAMBDA w : w.isActive)]
  /\ UNCHANGED <<WAREHOUSES, INVENTORY_LEVELS, STOCK_MOVEMENTS, nextUuid>>

(* ---------------------------- Spec: calls one after another ------------ *)
Init ==
  /\ WAREHOUSES = <<DemoWarehouse>>
  /\ INVENTORY_LEVELS = << >>
  /\ STOCK_MOVEMENTS = << >>
  /\ nextUuid = 1
  /\ request = NoRequest
  /\ resp = [status |-> 0, body |-> None]
  /\ calls = [c \in Clients |-> NoCall]
  /\ pc = [c \in Clients |-> "idle"]

PostMovement ==
  \E m \in Requests :
    /\ Len(STOCK_MOVEMENTS) < MaxMovements
    /\ record_stock_movement(m)
    /\ UNCHANGED <<calls, pc>>

PostInvalid ==
  \E m \in Requests :
    /\ RejectMovement(m)
    /\ UNCHANGED <<calls, pc>>

Next == PostMovement \/ PostInvalid

Spec == Init /\ [][Next]_vars

(* ---------------------------- SpecConc: concurrent callers ------------- *)
\* a caller sends its request; the server has it in flight
Issue(c, m) ==
  /\ pc[c] = "idle"
  /\ calls' = [calls EXCEPT ![c] = m]
  /\ pc' = [pc EXCEPT ![c] = "issued"]
  /\ UNCHANGED <<WAREHOUSES, INVENTORY_LEVELS, STOCK_MOVEMENTS, nextUuid,
                 request, resp>>

\* the event loop runs the handler of one in-flight request to completion
ServeMovement(c) ==
  /\ pc[c] = "issued"
  /\ record_stock_movement(calls[c])
  /\ pc' = [pc EXCEPT ![c] = "done"]
  /\ UNCHANGED calls

ServeInvalid(c) ==
  /\ pc[c] = "issued"
  /\ RejectMovement(calls[c])
  /\ pc' = [pc EXCEPT ![c] = "done"]
  /\ UNCHANGED calls

NextConc ==
  \/ \E c \in Clients, m \in ConcRequests : Issue(c, m)
  \/ \E c \in Clients : ServeMovement(c)
  \/ \E c \in Clients : ServeInvalid(c)

SpecConc == Init /\ [][NextConc]_vars

(* ---------------------------- SpecConcRead: concurrent reads and writes  *)
\* movements and reads the concurrent callers send
ReadConcRequests ==
  [id : {None}, itemId : ItemIds, warehouseId : {"w1"},
   movementType : {"inbound", "outbound", "bogus"}, quantity : {1}]
ReadConcQueries ==
  {RequestLine("GET /inventory/levels", None),
   RequestLine("GET /inventory/low-stock", None)}

\* the in-flight call is a POST /inventory/movements body
IsMovementCall(call) == "movementType" \in DOMAIN call

ServeWrite(c) == IsMovementCall(calls[c]) /\ ServeMovement(c)

ServeWriteInvalid(c) == IsMovementCall(calls[c]) /\ ServeInvalid(c)

\* the event loop runs a read handler to completion
ServeLevelsExclusive(c) ==
  /\ pc[c] = "issued"
  /\ \A d \in Clients \ {c} : pc[d] = "issued" => IsMovementCall(calls[d])
  /\ ~IsMovementCall(calls[c])
  /\ calls[c].path = "GET /inventory/levels"
  /\ get_inventory_levels(calls[c].warehouseId)
  /\ pc' = [pc EXCEPT ![c] = "done"]
  /\ UNCHANGED calls
ServeLevels(c) ==
  /\ pc[c] = "issued"
  /\ ~IsMovementCall(calls[c])
  /\ calls[c].path = "GET /inventory/levels"
  /\ get_inventory_levels(calls[c].warehouseId)
  /\ pc' = [pc EXCEPT ![c] = "done"]
  /\ UNCHANGED calls

ServeLowStock(c) ==
  /\ pc[c] = "issued"
  /\ ~IsMovementCall(calls[c])
  /\ calls[c].path = "GET /inventory/low-stock"
  /\ get_low_stock(calls[c].warehouseId)
  /\ pc' = [pc EXCEPT ![c] = "done"]
  /\ UNCHANGED calls

\* the handler of the in-flight call of c runs
Serve(c) ==
  ServeWrite(c) \/ ServeWriteInvalid(c) \/ ServeLevels(c) \/ ServeLowStock(c)

NextConcRead ==
  \/ \E c \in Clients, m \in ReadConcRequests \cup ReadConcQueries : Issue(c, m)
  \/ \E c \in Clients : ServeWrite(c)
  \/ \E c \in Clients : ServeWriteInvalid(c)
  \/ \E c \in Clients : ServeLevels(c)
  \/ \E c \in Clients : ServeLowStock(c)

SpecConcRead == Init /\ [][NextConcRead]_vars

\* the event loop runs every handler whose request has arrived
FairSpecConcRead ==
  Init /\ [][NextConcRead]_vars /\ \A c \in Clients : WF_vars(Serve(c))

(* ---------------------------- SpecQuery: reads of a populated store ---- *)
\* largest quantity and largest reorder point of a level the store starts with
MaxSeedQuantity == 2
MaxSeedReorderPoint == 1

\* optional warehouseId query parameter: absent, empty, or a string
QueryArgs == {None, ""} \cup WarehouseIds

\* an InventoryLevel the store holds at the start
SeedLevel(w, q, rp) ==
  [id |-> "level-" \o w, itemId |-> "i1", warehouseId |-> w,
   quantity |-> q, reservedQuantity |-> 0, reorderPoint |-> rp,
   reorderQuantity |-> NoneInt, locationCode |-> None]

SeedLevelsOf(w) ==
  {SeedLevel(w, q, rp) :
     q \in 0..MaxSeedQuantity,
     rp \in {NoneInt} \cup {<<n>> : n \in 0..MaxSeedReorderPoint}}

\* Level Stores with at most one level per (itemId, warehouseId)
SeedStores ==
  {<< >>}
  \cup {<<a>> : a \in UNION {SeedLevelsOf(w) : w \in WarehouseIds}}
  \cup {<<a, b>> : a \in SeedLevelsOf("w1"), b \in SeedLevelsOf("w2")}

\* movements posted between the reads
QueryRequests ==
  [id : {None}, itemId : ItemIds, warehouseId : WarehouseIds,
   movementType : {"inbound", "outbound"}, quantity : {1}]

InitQuery ==
  /\ WAREHOUSES = <<DemoWarehouse>>
  /\ INVENTORY_LEVELS \in SeedStores
  /\ STOCK_MOVEMENTS = << >>
  /\ nextUuid = 1
  /\ request = NoRequest
  /\ resp = [status |-> 0, body |-> None]
  /\ calls = [c \in Clients |-> NoCall]
  /\ pc = [c \in Clients |-> "idle"]

GetLevels ==
  \E w \in QueryArgs : get_inventory_levels(w) /\ UNCHANGED <<calls, pc>>

GetLowStock ==
  \E w \in QueryArgs : get_low_stock(w) /\ UNCHANGED <<calls, pc>>

PostBetweenReads ==
  \E m \in QueryRequests :
    /\ Len(STOCK_MOVEMENTS) < MaxMovements
    /\ record_stock_movement(m)
    /\ UNCHANGED <<calls, pc>>

NextQuery == GetLevels \/ GetLowStock \/ PostBetweenReads

SpecQuery == InitQuery /\ [][NextQuery]_vars

(* ---------------------------- SpecAll: every endpoint ------------------ *)
\* most entries of the Warehouse registry explored by SpecAll
MaxWarehouses == 2

\* ids of the registered warehouses
RegisteredIds == {WAREHOUSES[k].id : k \in 1..Len(WAREHOUSES)}

\* bodies of POST /warehouses
CreateWarehouseRequests ==
  [name : {"Annex"}, isActive : {NoneBool, <<TRUE>>, <<FALSE>>}]

\* bodies of POST /inventory/movements: for the seeded warehouse, for a
\* warehouse id that is not registered, and for the registered ones
AllRequests ==
  [id : {None}, itemId : ItemIds, warehouseId : WarehouseIds \cup RegisteredIds,
   movementType : {"inbound", "outbound", "bogus"}, quantity : {1}]

PostAny ==
  \E m \in AllRequests :
    /\ Len(STOCK_MOVEMENTS) < MaxMovements
    /\ record_stock_movement(m)
    /\ UNCHANGED <<calls, pc>>

PostAnyInvalid ==
  \E m \in AllRequests :
    /\ RejectMovement(m)
    /\ UNCHANGED <<calls, pc>>

CreateWarehouse ==
  \E req \in CreateWarehouseRequests :
    /\ Len(WAREHOUSES) < MaxWarehouses
    /\ create_warehouse(req)
    /\ UNCHANGED <<calls, pc>>

GetWarehouses == get_warehouses /\ UNCHANGED <<calls, pc>>

NextAll ==
  \/ PostAny
  \/ PostAnyInvalid
  \/ CreateWarehouse
  \/ GetWarehouses
  \/ GetLevels
  \/ GetLowStock

SpecAll == Init /\ [][NextAll]_vars

(* ---------------------------- properties ------------------------------- *)
\* positions of the levels held for the pair (i, w)
PairLevels(levels, i, w) ==
  {k \in 1..Len(levels) : levels[k].itemId = i /\ levels[k].warehouseId = w}

\* quantity on hand for the pair (i, w), 0 when the pair has no level
CurrentQuantity(levels, i, w) ==
  IF PairLevels(levels, i, w) = {} THEN 0
  ELSE levels[CHOOSE k \in PairLevels(levels, i, w) : TRUE].quantity

Larger(a, b) == IF a > b THEN a ELSE b

\* the step is a call of the movement endpoint that was accepted (Spec:
\* every step is one call, and resp' is the answer to it)
Accepted == resp'.status = 200

\* C1 - Quantity floor: in every state reachable from the empty store the
\* quantity of every level in the Level Store is >= 0.
QuantityFloor ==
  \A k \in 1..Len(INVENTORY_LEVELS) : INVENTORY_LEVELS[k].quantity >= 0

\* an outbound movement larger than the stock on hand has been applied
QuantityFloorWitness ==
  /\ Len(STOCK_MOVEMENTS) = 2
  /\ STOCK_MOVEMENTS[1].movementType = "inbound" /\ STOCK_MOVEMENTS[1].quantity = 1
  /\ STOCK_MOVEMENTS[2].movementType = "outbound" /\ STOCK_MOVEMENTS[2].quantity = 2
  /\ STOCK_MOVEMENTS[1].warehouseId = STOCK_MOVEMENTS[2].warehouseId
  /\ Len(INVENTORY_LEVELS) = 1 /\ INVENTORY_LEVELS[1].quantity = 0

\* every caller's call has completed and was inbound, quantity 1, on (i, w)
AllInboundOneOn(i, w) ==
  \A c \in Clients :
    /\ pc[c] = "done"
    /\ calls[c].itemId = i /\ calls[c].warehouseId = w
    /\ calls[c].movementType = "inbound" /\ calls[c].quantity = 1

\* C2 - No lost updates: N concurrently issued inbound calls of quantity 1
\* on the same, initially absent pair leave that pair's quantity at exactly
\* N once all N have completed, in every interleaving.
NoLostUpdates ==
  \A i \in ItemIds, w \in WarehouseIds :
    AllInboundOneOn(i, w) =>
      /\ PairLevels(INVENTORY_LEVELS, i, w) # {}
      /\ \A k \in PairLevels(INVENTORY_LEVELS, i, w) :
           INVENTORY_LEVELS[k].quantity = NumClients

NoLostUpdatesWitness ==
  /\ \E i \in ItemIds, w \in WarehouseIds : AllInboundOneOn(i, w)
  /\ Len(STOCK_MOVEMENTS) = NumClients

\* C3 - Key uniqueness: in every reachable state, also after concurrently
\* issued calls on the same previously absent pair, the Level Store holds at
\* most one level per (itemId, warehouseId).
KeyUniqueness ==
  \A j, k \in 1..Len(INVENTORY_LEVELS) :
    (/\ INVENTORY_LEVELS[j].itemId = INVENTORY_LEVELS[k].itemId
     /\ INVENTORY_LEVELS[j].warehouseId = INVENTORY_LEVELS[k].warehouseId) => j = k

\* two callers had calls for one pair in flight, and both have been served
KeyUniquenessWitness ==
  \E c, d \in Clients :
    /\ c # d /\ pc[c] = "done" /\ pc[d] = "done"
    /\ calls[c].movementType \in MovementTypes
    /\ calls[d].movementType \in MovementTypes
    /\ calls[c].itemId = calls[d].itemId
    /\ calls[c].warehouseId = calls[d].warehouseId
    /\ Cardinality(PairLevels(INVENTORY_LEVELS, calls[c].itemId, calls[c].warehouseId)) = 1

\* the step is the movement endpoint answering the request m
Posted(m) == record_stock_movement(m) \/ RejectMovement(m)

\* C4 - A request whose quantity is zero or negative fails with
\* InvalidMovement, whatever its movement type.
NonPositiveQuantityFails ==
  [][\A m \in Requests :
       (m.quantity <= 0 /\ Posted(m)) => resp'.status = 422]_vars

\* C5 - All-or-nothing on invalid input: a request with quantity <= 0
\* leaves the Level Store and the Ledger exactly as they were.
NonPositiveQuantityChangesNothing ==
  [][\A m \in Requests :
       (m.quantity <= 0 /\ Posted(m)) =>
         UNCHANGED <<INVENTORY_LEVELS, STOCK_MOVEMENTS>>]_vars

\* requests whose movementType is none of the five enumerated kinds
UnknownTypeRequests ==
  {m \in Requests :
     m.movementType \notin {"inbound", "outbound", "transfer", "adjustment", "return"}}

\* C6 - A request whose movementType is not one of inbound, outbound,
\* transfer, adjustment, return fails with InvalidMovement and leaves the
\* Level Store and the Ledger unchanged.
UnknownTypeFails ==
  [][\A m \in UnknownTypeRequests :
       Posted(m) => /\ resp'.status = 422
                    /\ UNCHANGED <<INVENTORY_LEVELS, STOCK_MOVEMENTS>>]_vars

\* a request of unknown type has been answered after a movement was committed
UnknownTypeFailsWitness ==
  /\ resp.status = 422
  /\ resp.body.input \notin MovementTypes
  /\ Len(STOCK_MOVEMENTS) = 1 /\ Len(INVENTORY_LEVELS) = 1

\* C7 - Delta policy: an accepted movement of submitted quantity q on a
\* level of quantity c (0 if absent) leaves max(0, c + q) for inbound and
\* return, and max(0, c - q) for outbound, transfer and adjustment.
DeltaPolicy ==
  [][Accepted =>
       LET m == resp'.body
           c == CurrentQuantity(INVENTORY_LEVELS, m.itemId, m.warehouseId)
           after == PairLevels(INVENTORY_LEVELS', m.itemId, m.warehouseId)
       IN /\ after # {}
          /\ m.movementType \in {"inbound", "return"} =>
               \A k \in after :
                 INVENTORY_LEVELS'[k].quantity = Larger(0, c + m.quantity)
          /\ m.movementType \in {"outbound", "transfer", "adjustment"} =>
               \A k \in after :
                 INVENTORY_LEVELS'[k].quantity = Larger(0, c - m.quantity)]_vars

\* an adjustment larger than the stock on hand has been applied
DeltaPolicyWitness ==
  /\ Len(STOCK_MOVEMENTS) = 2
  /\ STOCK_MOVEMENTS[1].movementType = "return" /\ STOCK_MOVEMENTS[1].quantity = 1
  /\ STOCK_MOVEMENTS[2].movementType = "adjustment" /\ STOCK_MOVEMENTS[2].quantity = 2
  /\ STOCK_MOVEMENTS[1].warehouseId = STOCK_MOVEMENTS[2].warehouseId
  /\ resp.status = 200 /\ resp.body = STOCK_MOVEMENTS[2]
  /\ CurrentQuantity(INVENTORY_LEVELS, resp.body.itemId, resp.body.warehouseId) = 0

\* C8 - Lazy materialization: an accepted movement on a pair without a
\* level adds exactly one level, with the request's keys, reservedQuantity
\* 0 and no reorderPoint; on a pair with a level the number of levels stays.
LazyMaterialization ==
  [][Accepted =>
       LET m == resp'.body
           before == PairLevels(INVENTORY_LEVELS, m.itemId, m.warehouseId)
           after == PairLevels(INVENTORY_LEVELS', m.itemId, m.warehouseId)
       IN IF before = {}
            THEN /\ Len(INVENTORY_LEVELS') = Len(INVENTORY_LEVELS) + 1
                 /\ Cardinality(after) = 1
                 /\ \A k \in after :
                      /\ INVENTORY_LEVELS'[k].reservedQuantity = 0
                      /\ INVENTORY_LEVELS'[k].reorderPoint = NoneInt
            ELSE Len(INVENTORY_LEVELS') = Len(INVENTORY_LEVELS)]_vars

\* one movement materialized a level and a second one found it
LazyMaterializationWitness ==
  /\ Len(STOCK_MOVEMENTS) = 2
  /\ Len(INVENTORY_LEVELS) = 1
  /\ INVENTORY_LEVELS[1].itemId = STOCK_MOVEMENTS[1].itemId
  /\ INVENTORY_LEVELS[1].warehouseId = STOCK_MOVEMENTS[1].warehouseId
  /\ INVENTORY_LEVELS[1].reservedQuantity = 0
  /\ STOCK_MOVEMENTS[1].quantity = 2

\* C9 - Ledger is append-only in commit order: the Ledger of a later state
\* has the Ledger of every earlier state as a prefix; no entry is removed,
\* reordered or changed, and a newly committed entry comes last.
LedgerAppendOnly ==
  [][\/ STOCK_MOVEMENTS' = STOCK_MOVEMENTS
     \/ /\ Len(STOCK_MOVEMENTS') = Len(STOCK_MOVEMENTS) + 1
        /\ SubSeq(STOCK_MOVEMENTS', 1, Len(STOCK_MOVEMENTS)) = STOCK_MOVEMENTS]_vars

\* a second, different movement has been committed after a first
LedgerAppendOnlyWitness ==
  /\ Len(STOCK_MOVEMENTS) >= 2
  /\ STOCK_MOVEMENTS[1] # STOCK_MOVEMENTS[2]
  /\ resp.status = 200 /\ resp.body = STOCK_MOVEMENTS[Len(STOCK_MOVEMENTS)]

\* signed delta of a ledger entry by the movement-type policy
PolicyDelta(e) ==
  IF e.movementType \in {"inbound", "return"} THEN e.quantity
  ELSE IF e.movementType \in {"outbound", "transfer", "adjustment"} THEN -e.quantity
  ELSE 0

\* quantity of the pair (i, w) after replaying the first n ledger entries
\* on an empty store
RECURSIVE ReplayQuantity(_, _, _, _)
ReplayQuantity(ledger, n, i, w) ==
  IF n = 0 THEN 0
  ELSE LET before == ReplayQuantity(ledger, n - 1, i, w)
       IN IF ledger[n].itemId = i /\ ledger[n].warehouseId = w
            THEN Larger(0, before + PolicyDelta(ledger[n]))
            ELSE before

\* C10 - Replay equivalence: replaying the Ledger in commit order from an
\* empty Level Store yields a level for exactly the pairs the Level Store
\* holds, each with the quantity the Level Store holds.
ReplayEquivalence ==
  /\ {<<INVENTORY_LEVELS[k].itemId, INVENTORY_LEVELS[k].warehouseId>> :
        k \in 1..Len(INVENTORY_LEVELS)}
       = {<<STOCK_MOVEMENTS[n].itemId, STOCK_MOVEMENTS[n].warehouseId>> :
            n \in 1..Len(STOCK_MOVEMENTS)}
  /\ \A k \in 1..Len(INVENTORY_LEVELS) :
       INVENTORY_LEVELS[k].quantity =
         ReplayQuantity(STOCK_MOVEMENTS, Len(STOCK_MOVEMENTS),
                        INVENTORY_LEVELS[k].itemId, INVENTORY_LEVELS[k].warehouseId)

\* a clamped deficit followed by an increase: the order of replay matters
ReplayEquivalenceWitness ==
  /\ Len(STOCK_MOVEMENTS) = 2
  /\ STOCK_MOVEMENTS[1].movementType = "transfer" /\ STOCK_MOVEMENTS[1].quantity = 1
  /\ STOCK_MOVEMENTS[2].movementType = "inbound" /\ STOCK_MOVEMENTS[2].quantity = 2
  /\ STOCK_MOVEMENTS[1].warehouseId = STOCK_MOVEMENTS[2].warehouseId
  /\ Len(INVENTORY_LEVELS) = 1 /\ INVENTORY_LEVELS[1].quantity = 2

\* the levels of a returned list, without their order
Range(seq) == {seq[k] : k \in 1..Len(seq)}

\* the returned list holds exactly the levels of the store that satisfy Want
ReturnsExactly(body, Want(_)) ==
  /\ Range(body) = {l \in Range(INVENTORY_LEVELS) : Want(l)}
  /\ Len(body) = Cardinality(Range(body))

\* the step is GET /inventory/levels?warehouseId=w answered
LevelsRead(w) == get_inventory_levels(w)

\* the step is GET /inventory/low-stock?warehouseId=w answered
LowStockRead(w) == get_low_stock(w)

ReadsArePure ==
  [][\A w \in QueryArgs :
       /\ LevelsRead(w) =>
            /\ UNCHANGED <<INVENTORY_LEVELS, STOCK_MOVEMENTS>>
            /\ resp'.body = FilterWarehouse(INVENTORY_LEVELS', w)
            /\ request = request' => resp' = resp
       /\ LowStockRead(w) =>
            UNCHANGED <<INVENTORY_LEVELS, STOCK_MOVEMENTS>>]_vars

\* a read of a store of two levels has been answered after a movement
ReadsArePureWitness ==
  /\ request = RequestLine("GET /inventory/levels", None)
  /\ Len(INVENTORY_LEVELS) = 2
  /\ INVENTORY_LEVELS[1] # INVENTORY_LEVELS[2]
  /\ Len(STOCK_MOVEMENTS) = 1
  /\ resp.status = 200 /\ resp.body = INVENTORY_LEVELS

\* C17 - Warehouse filter of queryLevels: for every supplied warehouseId w
\* queryLevels(w) returns exactly the levels whose warehouseId equals w;
\* without a warehouseId it returns every level.
WarehouseFilter ==
  [][\A w \in QueryArgs :
       LevelsRead(w) =>
         ReturnsExactly(resp'.body,
           LAMBDA l : w # None => l.warehouseId = w)]_vars

\* C19 - Frame of applyMovement: an accepted movement for (i, w) changes
\* nothing in the Level Store but the quantity of the level for (i, w),
\* registering that level if it was absent; no other step changes the Level
\* Store, so a level is never removed and keeps its id.
MovementFrame ==
  [][IF Len(STOCK_MOVEMENTS') = Len(STOCK_MOVEMENTS) + 1
       THEN LET m == STOCK_MOVEMENTS'[Len(STOCK_MOVEMENTS')]
                old == INVENTORY_LEVELS
                new == INVENTORY_LEVELS'
            IN /\ Len(new) \in {Len(old), Len(old) + 1}
               /\ \A k \in 1..Len(old) :
                    IF old[k].itemId = m.itemId /\ old[k].warehouseId = m.warehouseId
                      THEN new[k] = [old[k] EXCEPT !.quantity = new[k].quantity]
                      ELSE new[k] = old[k]
               /\ Len(new) = Len(old) + 1 =>
                    /\ PairLevels(old, m.itemId, m.warehouseId) = {}
                    /\ new[Len(new)].itemId = m.itemId
                    /\ new[Len(new)].warehouseId = m.warehouseId
       ELSE INVENTORY_LEVELS' = INVENTORY_LEVELS]_vars

\* a movement has changed the quantity of a level that has a reorder point,
\* next to another level
MovementFrameWitness ==
  /\ Len(STOCK_MOVEMENTS) = 1
  /\ Len(INVENTORY_LEVELS) = 2
  /\ \E k \in 1..2 :
       /\ INVENTORY_LEVELS[k].warehouseId = STOCK_MOVEMENTS[1].warehouseId
       /\ INVENTORY_LEVELS[k].reorderPoint = <<1>>
       /\ INVENTORY_LEVELS[k].id = "level-" \o INVENTORY_LEVELS[k].warehouseId
       /\ INVENTORY_LEVELS[k].quantity = 3

\* ids of the movements committed so far
LedgerIds == {STOCK_MOVEMENTS[n].id : n \in 1..Len(STOCK_MOVEMENTS)}

\* C14 - Identity assignment: the movement returned by an accepted call is
\* the entry appended to the Ledger and carries an id; a supplied id is kept
\* exactly, a missing one is replaced by a newly assigned id; itemId,
\* warehouseId, movementType and quantity equal those of the request.
IdentityAssignment ==
  [][\A m \in Requests :
       record_stock_movement(m) =>
         /\ Len(STOCK_MOVEMENTS') > 0
         /\ resp'.body = STOCK_MOVEMENTS'[Len(STOCK_MOVEMENTS')]
         /\ resp'.body.id # None
         /\ m.id # None => resp'.body.id = m.id
         /\ m.id = None => resp'.body.id \notin LedgerIds
         /\ resp'.body.itemId = m.itemId
         /\ resp'.body.warehouseId = m.warehouseId
         /\ resp'.body.movementType = m.movementType
         /\ resp'.body.quantity = m.quantity]_vars

\* C15 - Well-formed movements never fail and are always recorded: a call
\* fails only for a movementType outside the five kinds, whatever the stock;
\* an accepted call makes the Ledger exactly one entry longer, and a
\* decrease larger than the quantity on hand leaves quantity 0.
WellFormedMovementsSucceed ==
  [][/\ resp'.status \in {200, 422}
     /\ resp'.status = 422 => resp'.body.input \notin MovementTypes
     /\ resp'.status = 200 =>
          LET m == resp'.body
              c == CurrentQuantity(INVENTORY_LEVELS, m.itemId, m.warehouseId)
          IN /\ Len(STOCK_MOVEMENTS') = Len(STOCK_MOVEMENTS) + 1
             /\ (/\ m.movementType \in {"outbound", "transfer", "adjustment"}
                 /\ m.quantity > c) =>
                  CurrentQuantity(INVENTORY_LEVELS', m.itemId, m.warehouseId) = 0]_vars

\* a transfer of 2 from a level holding 1 has been accepted and recorded
WellFormedMovementsSucceedWitness ==
  /\ Len(STOCK_MOVEMENTS) = 2
  /\ STOCK_MOVEMENTS[1].movementType = "inbound" /\ STOCK_MOVEMENTS[1].quantity = 1
  /\ STOCK_MOVEMENTS[2].movementType = "transfer" /\ STOCK_MOVEMENTS[2].quantity = 2
  /\ STOCK_MOVEMENTS[1].warehouseId = STOCK_MOVEMENTS[2].warehouseId
  /\ resp = [status |-> 200, body |-> STOCK_MOVEMENTS[2]]
  /\ INVENTORY_LEVELS[1].quantity = 0

\* C16 - No referential integrity: a movement whose warehouseId is not in
\* the Warehouse registry is accepted exactly like one whose warehouseId
\* is: it materializes or updates the level, is appended to the Ledger, and
\* the registry is neither consulted nor changed.
NoReferentialIntegrity ==
  [][\A m \in AllRequests :
       (m.movementType \in MovementTypes /\ Posted(m)) =>
         /\ resp'.status = 200
         /\ Len(STOCK_MOVEMENTS') = Len(STOCK_MOVEMENTS) + 1
         /\ STOCK_MOVEMENTS'[Len(STOCK_MOVEMENTS')].warehouseId = m.warehouseId
         /\ PairLevels(INVENTORY_LEVELS', m.itemId, m.warehouseId) # {}
         /\ CurrentQuantity(INVENTORY_LEVELS', m.itemId, m.warehouseId) =
              Larger(0, CurrentQuantity(INVENTORY_LEVELS, m.itemId, m.warehouseId)
                          + PolicyDelta(m))
         /\ WAREHOUSES' = WAREHOUSES]_vars

\* a movement for an unregistered warehouse and one for a warehouse created
\* at run time have both been committed
NoReferentialIntegrityWitness ==
  /\ Len(STOCK_MOVEMENTS) = 2
  /\ STOCK_MOVEMENTS[1].warehouseId \notin RegisteredIds
  /\ STOCK_MOVEMENTS[2].warehouseId \in RegisteredIds \ {demo_wh_id}
  /\ Len(INVENTORY_LEVELS) = 2
  /\ INVENTORY_LEVELS[1].quantity = 1

\* C20 - Low-stock is unreachable: from the empty Level Store no operation
\* sets a reorderPoint, so queryLowStock returns the empty sequence for
\* every warehouseId argument, also for levels whose quantity is 0.
LowStockUnreachable ==
  /\ \A k \in 1..Len(INVENTORY_LEVELS) : INVENTORY_LEVELS[k].reorderPoint = NoneInt
  /\ \A w \in QueryArgs : LowStock(INVENTORY_LEVELS, w) = << >>
  /\ request.path = "GET /inventory/low-stock" => resp.body = << >>

\* the low-stock endpoint has answered while a level of quantity 0 exists
LowStockUnreachableWitness ==
  /\ request.path = "GET /inventory/low-stock"
  /\ resp.status = 200
  /\ \E k \in 1..Len(INVENTORY_LEVELS) : INVENTORY_LEVELS[k].quantity = 0
  /\ \E k \in 1..Len(INVENTORY_LEVELS) : INVENTORY_LEVELS[k].quantity > 0

\* pairs for which the Ledger holds a movement
LedgerPairs(ledger) ==
  {<<ledger[n].itemId, ledger[n].warehouseId>> : n \in 1..Len(ledger)}

\* C13 - Snapshot-consistent reads: a read served among concurrent
\* movements returns levels as they are between two whole movements: every
\* returned quantity is the replay of the movements in the Ledger, never a
\* registered level without its delta nor a quantity ahead of the Ledger.
SnapshotReads ==
  [][\A c \in Clients :
       (ServeLevels(c) \/ ServeLowStock(c)) =>
         /\ \A k \in 1..Len(resp'.body) :
              LET l == resp'.body[k]
              IN /\ <<l.itemId, l.warehouseId>> \in LedgerPairs(STOCK_MOVEMENTS')
                 /\ l.quantity = ReplayQuantity(STOCK_MOVEMENTS', Len(STOCK_MOVEMENTS'),
                                                l.itemId, l.warehouseId)
         /\ ServeLevels(c) =>
              {<<resp'.body[k].itemId, resp'.body[k].warehouseId>> :
                 k \in 1..Len(resp'.body)} = LedgerPairs(STOCK_MOVEMENTS')]_vars

\* a read was answered with a movement committed and another in flight
SnapshotReadsWitness ==
  /\ request.path = "GET /inventory/levels"
  /\ resp.status = 200 /\ Len(resp.body) = 1 /\ resp.body[1].quantity = 1
  /\ \E c, d \in Clients :
       /\ pc[c] = "done" /\ ~IsMovementCall(calls[c])
       /\ pc[d] = "issued" /\ IsMovementCall(calls[d])
       /\ calls[d].movementType = "inbound"

\* C18 - Every applyMovement, queryLevels and queryLowStock call that has
\* started eventually completes, in every fair interleaving with the other
\* callers' calls.
EveryCallCompletes ==
  \A c \in Clients : (pc[c] = "issued") ~> (pc[c] = "done")

\* a movement, a levels read and a low-stock read, all in flight together
\* at some point, have completed
EveryCallCompletesWitness ==
  \E c, d, e \in Clients :
    /\ pc[c] = "done" /\ pc[d] = "done" /\ pc[e] = "done"
    /\ IsMovementCall(calls[c]) /\ calls[c].movementType = "inbound"
    /\ ~IsMovementCall(calls[d]) /\ calls[d].path = "GET /inventory/levels"
    /\ ~IsMovementCall(calls[e]) /\ calls[e].path = "GET /inventory/low-stock"

====
